---- MODULE Spec2Model ----
(***************************************************************************)
(* Model of the argmin test functions (Rosenbrock family) and of the       *)
(* ArgminMinMax primitive.                                                  *)
(*                                                                         *)
(* The functions are pure; each is an operator translated from its code,   *)
(* the `for` loops as recursion over the loop index.  The state machine    *)
(* is a caller that holds one set of arguments and calls the functions on  *)
(* it, one call at a time.  The two Hessian functions are also run window  *)
(* by window, so that the intermediate matrices are states.                *)
(*                                                                         *)
(* The element type T: Float is modelled by exact rationals <<num, den>>   *)
(* in lowest terms (den > 0): rounding is not modelled.                    *)
(***************************************************************************)
EXTENDS Integers, Sequences, FiniteSets, TLC

VARIABLES args, overflow_checks, fn, pc, i, end, hessian, ret

vars == <<args, overflow_checks, fn, pc, i, end, hessian, ret>>

\* Bounds of the model.
MaxLen == 3
MaxAbs == 2

\* Width of usize.  Rust guarantees at least 16 bits; the loops only depend
\* on usize::MAX being larger than every slice length.
usize_BITS == 16

(***************************************************************************)
(* Exact arithmetic of the element type T.                                 *)
(***************************************************************************)
Abs(k) == IF k < 0 THEN -k ELSE k

RECURSIVE GCD(_, _)
GCD(m, k) == IF k = 0 THEN m ELSE GCD(k, m % k)

Norm(num, den) ==
    LET g == GCD(Abs(num), Abs(den))
        s == IF den < 0 THEN -1 ELSE 1
    IN  <<(s * num) \div g, (s * den) \div g>>

from_f64(k) == <<k, 1>>

\* Sums and products cancel common factors before multiplying, which keeps
\* the intermediate integers small.
add(p, q) ==
    LET g == GCD(p[2], q[2])
    IN  Norm(p[1] * (q[2] \div g) + q[1] * (p[2] \div g), (p[2] \div g) * q[2])
neg(p) == <<-p[1], p[2]>>
sub(p, q) == add(p, neg(q))
mul(p, q) ==
    LET g1 == GCD(Abs(p[1]), q[2])
        g2 == GCD(Abs(q[1]), p[2])
    IN  Norm((p[1] \div g1) * (q[1] \div g2), (p[2] \div g2) * (q[2] \div g1))

RECURSIVE powi(_, _)
powi(p, k) == IF k = 0 THEN from_f64(1) ELSE mul(p, powi(p, k - 1))

(***************************************************************************)
(* Slices, indexing and usize arithmetic.  Indices are 0-based as in the   *)
(* source; an index outside the slice panics.                              *)
(***************************************************************************)
At(s, k) == s[k + 1]
InBounds(s, k) == k >= 0 /\ k < Len(s)

Ok(v) == [panicked |-> FALSE, val |-> v]
Panic == [panicked |-> TRUE, val |-> <<>>]

\* m - k on usize: with overflow checks the subtraction panics on underflow,
\* without them it wraps.
usize_sub(m, k) ==
    IF m >= k THEN Ok(m - k)
    ELSE IF overflow_checks THEN Panic
    ELSE Ok(m - k + 2 ^ usize_BITS)

(***************************************************************************)
(* rosenbrock: zip the slice with itself skipped by one, map, sum.         *)
(***************************************************************************)
skip(s, k) == IF k >= Len(s) THEN <<>> ELSE SubSeq(s, k + 1, Len(s))

zip(s, t) ==
    LET m == IF Len(s) < Len(t) THEN Len(s) ELSE Len(t)
    IN  [k \in 1..m |-> <<s[k], t[k]>>]

RECURSIVE sum(_)
sum(s) == IF s = <<>> THEN from_f64(0)
          ELSE add(sum(SubSeq(s, 1, Len(s) - 1)), s[Len(s)])

\* Mutant of rosenbrock_term: x_i is not squared.
rosenbrock_term_unsquared(a, b, xi, xi1) ==
    add(powi(sub(a, xi), 2), mul(b, powi(sub(xi1, xi), 2)))

rosenbrock_term(a, b, xi, xi1) ==
    add(powi(sub(a, xi), 2), mul(b, powi(sub(xi1, powi(xi, 2)), 2)))

rosenbrock(param, a, b) ==
    LET pairs == zip(param, skip(param, 1))
    IN  sum([k \in 1..Len(pairs) |->
                rosenbrock_term(a, b, pairs[k][1], pairs[k][2])])

(***************************************************************************)
(* The literals materialised in the element type.                          *)
(***************************************************************************)
n0 == from_f64(0)
n2 == from_f64(2)
n4 == from_f64(4)
n12 == from_f64(12)

(***************************************************************************)
(* rosenbrock_derivative: one pass of the loop body for window (k, k+1),   *)
(* the loop over 0..end, and the function.                                 *)
(***************************************************************************)
\* Mutant of derivative_window: entry k is assigned, not accumulated into.
derivative_window_overwrite(result, param, a, b, k) ==
    IF ~InBounds(param, k) \/ ~InBounds(param, k + 1)
          \/ ~InBounds(result, k) \/ ~InBounds(result, k + 1)
    THEN Panic
    ELSE LET xi == At(param, k)
             xi1 == At(param, k + 1)
             t1 == mul(mul(mul(neg(n4), b), xi), sub(xi1, powi(xi, 2)))
             t2 == mul(mul(n2, b), sub(xi1, powi(xi, 2)))
             r1 == [result EXCEPT ![k + 1] = add(t1, mul(n2, sub(xi, a)))]
         IN  Ok([r1 EXCEPT ![k + 2] = add(@, t2)])

derivative_window(result, param, a, b, k) ==
    IF ~InBounds(param, k) \/ ~InBounds(param, k + 1)
          \/ ~InBounds(result, k) \/ ~InBounds(result, k + 1)
    THEN Panic
    ELSE LET xi == At(param, k)
             xi1 == At(param, k + 1)
             t1 == mul(mul(mul(neg(n4), b), xi), sub(xi1, powi(xi, 2)))
             t2 == mul(mul(n2, b), sub(xi1, powi(xi, 2)))
             r1 == [result EXCEPT ![k + 1] = add(@, add(t1, mul(n2, sub(xi, a))))]
         IN  Ok([r1 EXCEPT ![k + 2] = add(@, t2)])

RECURSIVE derivative_loop(_, _, _, _, _, _)
derivative_loop(result, param, a, b, k, last) ==
    IF k >= last THEN Ok(result)
    ELSE LET w == derivative_window(result, param, a, b, k)
         IN  IF w.panicked THEN w
             ELSE derivative_loop(w.val, param, a, b, k + 1, last)

rosenbrock_derivative(param, a, b) ==
    LET n == Len(param)
        result == [k \in 1..n |-> n0]
        last == usize_sub(n, 1)
    IN  IF last.panicked THEN Panic
        ELSE derivative_loop(result, param, a, b, 0, last.val)

(***************************************************************************)
(* rosenbrock_derivative_const: the const generics version.                *)
(***************************************************************************)
\* Mutant of derivative_const_window: 2 (a - x_i) in place of 2 (x_i - a).
derivative_const_window_sign(result, param, a, b, k) ==
    IF ~InBounds(param, k) \/ ~InBounds(param, k + 1)
          \/ ~InBounds(result, k) \/ ~InBounds(result, k + 1)
    THEN Panic
    ELSE LET xi == At(param, k)
             xi1 == At(param, k + 1)
             t1 == mul(mul(mul(neg(n4), b), xi), sub(xi1, powi(xi, 2)))
             t2 == mul(mul(n2, b), sub(xi1, powi(xi, 2)))
             r1 == [result EXCEPT ![k + 1] = add(@, add(t1, mul(n2, sub(a, xi))))]
         IN  Ok([r1 EXCEPT ![k + 2] = add(@, t2)])

derivative_const_window(result, param, a, b, k) ==
    IF ~InBounds(param, k) \/ ~InBounds(param, k + 1)
          \/ ~InBounds(result, k) \/ ~InBounds(result, k + 1)
    THEN Panic
    ELSE LET xi == At(param, k)
             xi1 == At(param, k + 1)
             t1 == mul(mul(mul(neg(n4), b), xi), sub(xi1, powi(xi, 2)))
             t2 == mul(mul(n2, b), sub(xi1, powi(xi, 2)))
             r1 == [result EXCEPT ![k + 1] = add(@, add(t1, mul(n2, sub(xi, a))))]
         IN  Ok([r1 EXCEPT ![k + 2] = add(@, t2)])

RECURSIVE derivative_const_loop(_, _, _, _, _, _)
derivative_const_loop(result, param, a, b, k, last) ==
    IF k >= last THEN Ok(result)
    ELSE LET w == derivative_const_window(result, param, a, b, k)
         IN  IF w.panicked THEN w
             ELSE derivative_const_loop(w.val, param, a, b, k + 1, last)

rosenbrock_derivative_const(param, a, b) ==
    LET N == Len(param)
        result == [k \in 1..N |-> n0]
        last == usize_sub(N, 1)
    IN  IF last.panicked THEN Panic
        ELSE derivative_const_loop(result, param, a, b, 0, last.val)

(***************************************************************************)
(* rosenbrock_hessian: the loop body for window (k, k+1), the loop, and    *)
(* the function.  A matrix is a sequence of rows.                          *)
(***************************************************************************)
RowInBounds(h, r, c) == InBounds(h, r) /\ InBounds(At(h, r), c)

\* Mutant of hessian_window: the diagonal entry [k][k] is assigned, not
\* accumulated into.
hessian_window_overwrite(h, param, a, b, k) ==
    IF ~InBounds(param, k) \/ ~InBounds(param, k + 1)
          \/ ~RowInBounds(h, k, k) \/ ~RowInBounds(h, k + 1, k + 1)
          \/ ~RowInBounds(h, k, k + 1) \/ ~RowInBounds(h, k + 1, k)
    THEN Panic
    ELSE LET xi == At(param, k)
             xi1 == At(param, k + 1)
             h1 == [h EXCEPT ![k + 1][k + 1] =
                       add(sub(mul(mul(n12, b), powi(xi, 2)),
                               mul(mul(n4, b), xi1)),
                           mul(n2, a))]
             h2 == [h1 EXCEPT ![k + 2][k + 2] = mul(n2, b)]
             h3 == [h2 EXCEPT ![k + 1][k + 2] = mul(mul(neg(n4), b), xi)]
         IN  Ok([h3 EXCEPT ![k + 2][k + 1] = mul(mul(neg(n4), b), xi)])

\* Mutant of hessian_window: the entry [k+1][k] below the diagonal is not
\* written.
hessian_window_onesided(h, param, a, b, k) ==
    IF ~InBounds(param, k) \/ ~InBounds(param, k + 1)
          \/ ~RowInBounds(h, k, k) \/ ~RowInBounds(h, k + 1, k + 1)
          \/ ~RowInBounds(h, k, k + 1) \/ ~RowInBounds(h, k + 1, k)
    THEN Panic
    ELSE LET xi == At(param, k)
             xi1 == At(param, k + 1)
             h1 == [h EXCEPT ![k + 1][k + 1] =
                       add(@, add(sub(mul(mul(n12, b), powi(xi, 2)),
                                      mul(mul(n4, b), xi1)),
                                  mul(n2, a)))]
             h2 == [h1 EXCEPT ![k + 2][k + 2] = mul(n2, b)]
         IN  Ok([h2 EXCEPT ![k + 1][k + 2] = mul(mul(neg(n4), b), xi)])

hessian_window(h, param, a, b, k) ==
    IF ~InBounds(param, k) \/ ~InBounds(param, k + 1)
          \/ ~RowInBounds(h, k, k) \/ ~RowInBounds(h, k + 1, k + 1)
          \/ ~RowInBounds(h, k, k + 1) \/ ~RowInBounds(h, k + 1, k)
    THEN Panic
    ELSE LET xi == At(param, k)
             xi1 == At(param, k + 1)
             h1 == [h EXCEPT ![k + 1][k + 1] =
                       add(@, add(sub(mul(mul(n12, b), powi(xi, 2)),
                                      mul(mul(n4, b), xi1)),
                                  mul(n2, a)))]
             h2 == [h1 EXCEPT ![k + 2][k + 2] = mul(n2, b)]
             h3 == [h2 EXCEPT ![k + 1][k + 2] = mul(mul(neg(n4), b), xi)]
         IN  Ok([h3 EXCEPT ![k + 2][k + 1] = mul(mul(neg(n4), b), xi)])

RECURSIVE hessian_loop(_, _, _, _, _, _)
hessian_loop(h, param, a, b, k, last) ==
    IF k >= last THEN Ok(h)
    ELSE LET w == hessian_window(h, param, a, b, k)
         IN  IF w.panicked THEN w
             ELSE hessian_loop(w.val, param, a, b, k + 1, last)

hessian_zeros(n) == [r \in 1..n |-> [c \in 1..n |-> n0]]

rosenbrock_hessian(param, a, b) ==
    LET n == Len(param)
        last == usize_sub(n, 1)
    IN  IF last.panicked THEN Panic
        ELSE hessian_loop(hessian_zeros(n), param, a, b, 0, last.val)

(***************************************************************************)
(* rosenbrock_hessian_const: the const generics version.                   *)
(***************************************************************************)
\* Mutant of hessian_const_window: the diagonal entry [k][k] is assigned,
\* not accumulated into.
hessian_const_window_overwrite(h, x, a, b, k) ==
    IF ~InBounds(x, k) \/ ~InBounds(x, k + 1)
          \/ ~RowInBounds(h, k, k) \/ ~RowInBounds(h, k + 1, k + 1)
          \/ ~RowInBounds(h, k, k + 1) \/ ~RowInBounds(h, k + 1, k)
    THEN Panic
    ELSE LET xi == At(x, k)
             xi1 == At(x, k + 1)
             h1 == [h EXCEPT ![k + 1][k + 1] =
                       add(sub(mul(mul(n12, b), powi(xi, 2)),
                               mul(mul(n4, b), xi1)),
                           mul(n2, a))]
             h2 == [h1 EXCEPT ![k + 2][k + 2] = mul(n2, b)]
             h3 == [h2 EXCEPT ![k + 1][k + 2] = mul(mul(neg(n4), b), xi)]
         IN  Ok([h3 EXCEPT ![k + 2][k + 1] = mul(mul(neg(n4), b), xi)])

hessian_const_window(h, x, a, b, k) ==
    IF ~InBounds(x, k) \/ ~InBounds(x, k + 1)
          \/ ~RowInBounds(h, k, k) \/ ~RowInBounds(h, k + 1, k + 1)
          \/ ~RowInBounds(h, k, k + 1) \/ ~RowInBounds(h, k + 1, k)
    THEN Panic
    ELSE LET xi == At(x, k)
             xi1 == At(x, k + 1)
             h1 == [h EXCEPT ![k + 1][k + 1] =
                       add(@, add(sub(mul(mul(n12, b), powi(xi, 2)),
                                      mul(mul(n4, b), xi1)),
                                  mul(n2, a)))]
             h2 == [h1 EXCEPT ![k + 2][k + 2] = mul(n2, b)]
             h3 == [h2 EXCEPT ![k + 1][k + 2] = mul(mul(neg(n4), b), xi)]
         IN  Ok([h3 EXCEPT ![k + 2][k + 1] = mul(mul(neg(n4), b), xi)])

RECURSIVE hessian_const_loop(_, _, _, _, _, _)
hessian_const_loop(h, x, a, b, k, last) ==
    IF k >= last THEN Ok(h)
    ELSE LET w == hessian_const_window(h, x, a, b, k)
         IN  IF w.panicked THEN w
             ELSE hessian_const_loop(w.val, x, a, b, k + 1, last)

hessian_const_zeros(N) == [r \in 1..N |-> [c \in 1..N |-> n0]]

rosenbrock_hessian_const(x, a, b) ==
    LET N == Len(x)
        last == usize_sub(N, 1)
    IN  IF last.panicked THEN Panic
        ELSE hessian_const_loop(hessian_const_zeros(N), x, a, b, 0, last.val)

(***************************************************************************)
(* ArgminMinMax for the real element types: std::cmp::min and              *)
(* std::cmp::max on the two references.  min keeps its first argument on   *)
(* a tie, max its second.                                                  *)
(***************************************************************************)
\* Mutant of min: it calls std::cmp::max.
min_as_max(x, y) == IF y < x THEN x ELSE y

min(x, y) == IF y < x THEN y ELSE x

max(x, y) == IF y < x THEN x ELSE y

(***************************************************************************)
(* himmelblau: the two coordinates of the array, the literals 7 and 11,    *)
(* and the sum of the two squares.                                         *)
(***************************************************************************)
n7 == from_f64(7)
n11 == from_f64(11)

\* Mutant of himmelblau: the literals 7 and 11 change places.
himmelblau_swapped(param) ==
    LET x1 == At(param, 0)
        x2 == At(param, 1)
    IN  add(powi(sub(add(powi(x1, 2), x2), n7), 2),
            powi(sub(add(x1, powi(x2, 2)), n11), 2))

himmelblau(param) ==
    LET x1 == At(param, 0)
        x2 == At(param, 1)
    IN  add(powi(sub(add(powi(x1, 2), x2), n11), 2),
            powi(sub(add(x1, powi(x2, 2)), n7), 2))

(***************************************************************************)
(* The arguments a caller holds: every vector over Values of length at     *)
(* most MaxLen and the vector of the Hessian test, coefficients from AVals *)
(* and BVals; for min and max, two elements of -MaxAbs..MaxAbs; for        *)
(* himmelblau, an array of two elements of HimmelblauVals.                 *)
(***************************************************************************)
Values == {from_f64(-1), from_f64(0), from_f64(1), from_f64(2)}
AVals == {from_f64(1), from_f64(3)}
BVals == {from_f64(2), from_f64(100)}

\* The parameter vector of test_rosenbrock_hessian: (0.0, 0.1, 0.2, 0.3).
RefParam == <<from_f64(0), Norm(1, 10), Norm(2, 10), Norm(3, 10)>>

Params == UNION {[1..k -> Values] : k \in 0..MaxLen} \cup {RefParam}

\* The arguments of test_rosenbrock_hessian.
RefArgs == [param |-> RefParam, a |-> from_f64(1), b |-> from_f64(100)]

RosenArgs == [param : Params, a : AVals, b : BVals] \cup {RefArgs}

ElemVals == (-MaxAbs)..MaxAbs
MinMaxArgs == [x : ElemVals, y : ElemVals]

HimmelblauVals ==
    {from_f64(k) : k \in (-(MaxAbs + 1))..(MaxAbs + 1)} \cup {Norm(1, 2)}
HimmelblauArgs == [point : [1..2 -> HimmelblauVals]]

IsRosen == "param" \in DOMAIN args
IsHimmelblau == "point" \in DOMAIN args
IsMinMax == "x" \in DOMAIN args

(***************************************************************************)
(* The caller.                                                             *)
(***************************************************************************)
Init ==
    /\ args \in RosenArgs \cup MinMaxArgs \cup HimmelblauArgs
    /\ overflow_checks \in BOOLEAN
    /\ fn = "none"
    /\ pc = "idle"
    /\ i = 0
    /\ end = 0
    /\ hessian = <<>>
    /\ ret = <<>>

CanCall == pc \in {"idle", "returned"}

\* A call of a function that is modelled as one step.
Finish(name, r) ==
    /\ fn' = name
    /\ pc' = IF r.panicked THEN "panicked" ELSE "returned"
    /\ ret' = r.val
    /\ hessian' = <<>>
    /\ i' = 0
    /\ end' = 0
    /\ UNCHANGED <<args, overflow_checks>>

CallRosenbrock ==
    /\ CanCall /\ IsRosen
    /\ Finish("rosenbrock", Ok(rosenbrock(args.param, args.a, args.b)))

CallDerivative ==
    /\ CanCall /\ IsRosen
    /\ Finish("rosenbrock_derivative",
              rosenbrock_derivative(args.param, args.a, args.b))

CallDerivativeConst ==
    /\ CanCall /\ IsRosen
    /\ Finish("rosenbrock_derivative_const",
              rosenbrock_derivative_const(args.param, args.a, args.b))

CallHimmelblau ==
    /\ CanCall /\ IsHimmelblau
    /\ Finish("himmelblau", Ok(himmelblau(args.point)))

CallMin ==
    /\ CanCall /\ IsMinMax
    /\ Finish("min", Ok(min(args.x, args.y)))

CallMax ==
    /\ CanCall /\ IsMinMax
    /\ Finish("max", Ok(max(args.x, args.y)))

\* The Hessian functions, window by window: entry (allocation and the loop
\* bound n - 1), one pass of the loop body, and the return.
HessianEnter(name) ==
    /\ CanCall /\ IsRosen
    /\ fn' = name
    /\ ret' = <<>>
    /\ i' = 0
    /\ LET n == Len(args.param)
           last == usize_sub(n, 1)
       IN  /\ hessian' = IF name = "rosenbrock_hessian"
                         THEN hessian_zeros(n) ELSE hessian_const_zeros(n)
           /\ pc' = IF last.panicked THEN "panicked" ELSE "loop"
           /\ end' = IF last.panicked THEN 0 ELSE last.val
    /\ UNCHANGED <<args, overflow_checks>>

HessianStep ==
    /\ pc = "loop"
    /\ i < end
    /\ LET w == IF fn = "rosenbrock_hessian"
                THEN hessian_window(hessian, args.param, args.a, args.b, i)
                ELSE hessian_const_window(hessian, args.param, args.a, args.b, i)
       IN  IF w.panicked
           THEN /\ pc' = "panicked"
                /\ UNCHANGED <<hessian, i>>
           ELSE /\ hessian' = w.val
                /\ i' = i + 1
                /\ pc' = "loop"
    /\ UNCHANGED <<args, overflow_checks, fn, end, ret>>

HessianReturn ==
    /\ pc = "loop"
    /\ i >= end
    /\ ret' = hessian
    /\ pc' = "returned"
    /\ UNCHANGED <<args, overflow_checks, fn, i, end, hessian>>

CallHessian == HessianEnter("rosenbrock_hessian")

CallHessianConst == HessianEnter("rosenbrock_hessian_const")

Next ==
    \/ CallRosenbrock
    \/ CallDerivative
    \/ CallDerivativeConst
    \/ CallHessian
    \/ CallHessianConst
    \/ HessianStep
    \/ HessianReturn
    \/ CallHimmelblau
    \/ CallMin
    \/ CallMax

Spec == Init /\ [][Next]_vars

Returned(name) == fn = name /\ pc = "returned"
Panicked(name) == fn = name /\ pc = "panicked"

(***************************************************************************)
(* Notions the properties are stated with.                                 *)
(***************************************************************************)
X(k) == At(args.param, k)
Dim == Len(args.param)
Idx == 0..(Dim - 1)
AllOnes == \A k \in Idx : X(k) = from_f64(1)

\* The vector with d added to coordinate j.
Shift(param, j, d) == [param EXCEPT ![j + 1] = add(@, from_f64(d))]

\* The derivative at t = 0 of a polynomial p of degree at most 4, from its
\* values at t = -2, -1, 1, 2 (the five-point central difference with step
\* 1 is exact on such polynomials):
\*     12 p'(0) = p(-2) - 8 p(-1) + 8 p(1) - p(2).
Slope(pm2, pm1, pp1, pp2) ==
    mul(<<1, 12>>,
        add(sub(pm2, mul(from_f64(8), pm1)), sub(mul(from_f64(8), pp1), pp2)))

\* The partial derivative of rosenbrock with respect to x_j at the arguments
\* (rosenbrock is a polynomial of degree 4 in each coordinate).
PartialOfValue(j) ==
    LET f(d) == rosenbrock(Shift(args.param, j, d), args.a, args.b)
    IN  Slope(f(-2), f(-1), f(1), f(2))

\* The partial derivative with respect to x_j of entry k of
\* rosenbrock_derivative (a polynomial of degree at most 3 in each
\* coordinate).
PartialOfGradient(k, j) ==
    LET g(d) == At(rosenbrock_derivative(Shift(args.param, j, d),
                                         args.a, args.b).val, k)
    IN  Slope(g(-2), g(-1), g(1), g(2))

\* What window (k, k+1) contributes to the gradient entries k and k+1.
TermAsFirst(k) ==
    add(mul(mul(mul(from_f64(-4), args.b), X(k)), sub(X(k + 1), mul(X(k), X(k)))),
        mul(from_f64(2), sub(X(k), args.a)))
TermAsSecond(k) ==
    mul(mul(from_f64(2), args.b), sub(X(k + 1), mul(X(k), X(k))))

\* C8: the sum over the adjacent pairs (x_k, x_k+1), k < m, of
\* (a - x_k)^2 + b (x_k+1 - x_k^2)^2.
RECURSIVE PairSum(_)
PairSum(m) ==
    IF m <= 0 THEN from_f64(0)
    ELSE LET k == m - 1
             u == sub(args.a, X(k))
             v == sub(X(k + 1), mul(X(k), X(k)))
         IN  add(PairSum(m - 1), add(mul(u, u), mul(args.b, mul(v, v))))

\* C8: for a vector of length n >= 1, rosenbrock returns the sum over the
\* n - 1 adjacent pairs of (a - x_i)^2 + b (x_i+1 - x_i^2)^2; so 0 for a
\* vector of length 1, and 0 for an all-ones vector when a = 1.
C8_ValueIsPairSum ==
    (Returned("rosenbrock") /\ Dim >= 1) =>
        /\ ret = PairSum(Dim - 1)
        /\ (Dim = 1 => ret = from_f64(0))
        /\ (Dim >= 2 /\ AllOnes /\ args.a = from_f64(1) => ret = from_f64(0))

C8_Witness ==
    /\ Returned("rosenbrock")
    /\ Dim = 3
    /\ ~AllOnes
    /\ ret # from_f64(0)

\* C2: for a vector of length n >= 2, entry j of rosenbrock_derivative is the
\* partial derivative of rosenbrock with respect to x_j; entry 0 is the term
\* of window (0,1) alone, the last entry 2 b (x_n-1 - x_n-2^2) alone, and an
\* interior entry the sum of the terms of its two windows.
C2_GradientIsPartialDerivative ==
    (Returned("rosenbrock_derivative") /\ Dim >= 2) =>
        /\ Len(ret) = Dim
        /\ \A j \in Idx : At(ret, j) = PartialOfValue(j)
        /\ At(ret, 0) = TermAsFirst(0)
        /\ At(ret, Dim - 1) = TermAsSecond(Dim - 2)
        /\ \A j \in 1..(Dim - 2) :
              At(ret, j) = add(TermAsFirst(j), TermAsSecond(j - 1))

C2_Witness ==
    /\ Returned("rosenbrock_derivative")
    /\ Dim = 3
    /\ TermAsFirst(1) # from_f64(0)
    /\ TermAsSecond(0) # from_f64(0)
    /\ At(ret, 1) # from_f64(0)

\* C1: for a vector of length n >= 2, entry [r][c] of rosenbrock_hessian is
\* the partial derivative with respect to x_c of entry r of
\* rosenbrock_derivative.
C1_HessianIsJacobianOfGradient ==
    (Returned("rosenbrock_hessian") /\ Dim >= 2) =>
        \A r \in Idx : \A c \in Idx :
            At(At(ret, r), c) = PartialOfGradient(r, c)

\* C3: on the same array and coefficients the fixed-size functions return
\* the numbers the dynamic ones return, entry by entry, and a fixed-size
\* function fails exactly when its dynamic counterpart fails.
SameVector(u, v) ==
    /\ Len(u) = Len(v)
    /\ \A k \in 1..Len(u) : u[k] = v[k]

SameMatrix(u, v) ==
    /\ Len(u) = Len(v)
    /\ \A k \in 1..Len(u) : SameVector(u[k], v[k])

C3_ConstEqualsDynamic ==
    /\ Returned("rosenbrock_derivative_const") =>
          LET d == rosenbrock_derivative(args.param, args.a, args.b)
          IN  ~d.panicked /\ SameVector(ret, d.val)
    /\ Returned("rosenbrock_derivative") =>
          LET d == rosenbrock_derivative_const(args.param, args.a, args.b)
          IN  ~d.panicked /\ SameVector(ret, d.val)
    /\ Returned("rosenbrock_hessian_const") =>
          LET d == rosenbrock_hessian(args.param, args.a, args.b)
          IN  ~d.panicked /\ SameMatrix(ret, d.val)
    /\ Returned("rosenbrock_hessian") =>
          LET d == rosenbrock_hessian_const(args.param, args.a, args.b)
          IN  ~d.panicked /\ SameMatrix(ret, d.val)
    /\ Panicked("rosenbrock_derivative_const") =>
          rosenbrock_derivative(args.param, args.a, args.b).panicked
    /\ Panicked("rosenbrock_derivative") =>
          rosenbrock_derivative_const(args.param, args.a, args.b).panicked
    /\ Panicked("rosenbrock_hessian_const") =>
          rosenbrock_hessian(args.param, args.a, args.b).panicked
    /\ Panicked("rosenbrock_hessian") =>
          rosenbrock_hessian_const(args.param, args.a, args.b).panicked

C3_Witness ==
    /\ Returned("rosenbrock_derivative_const")
    /\ Dim = 3
    /\ \A k \in Idx : At(ret, k) # from_f64(0)

\* C4: min returns the lesser and max the greater of its two arguments,
\* whatever their order; on equal arguments both return that value; the
\* result is always one of the two arguments.
C4_MinMaxOrder ==
    /\ Returned("min") =>
          /\ (args.x < args.y => ret = args.x)
          /\ (args.y < args.x => ret = args.y)
          /\ (args.x = args.y => ret = args.x)
          /\ ret \in {args.x, args.y}
          /\ ret = min(args.y, args.x)
    /\ Returned("max") =>
          /\ (args.x < args.y => ret = args.y)
          /\ (args.y < args.x => ret = args.x)
          /\ (args.x = args.y => ret = args.x)
          /\ ret \in {args.x, args.y}
          /\ ret = max(args.y, args.x)

C4_Witness ==
    /\ Returned("min")
    /\ args.y < args.x
    /\ ret = args.y

\* C5: what a window adds to its diagonal entry [k][k].
DiagonalTerm(k) ==
    add(sub(mul(mul(from_f64(12), args.b), mul(X(k), X(k))),
            mul(mul(from_f64(4), args.b), X(k + 1))),
        mul(from_f64(2), args.a))

\* The matrix test_rosenbrock_hessian expects.
RefHessian ==
    << <<from_f64(-38), from_f64(0), from_f64(0), from_f64(0)>>,
       <<from_f64(0), from_f64(134), from_f64(-40), from_f64(0)>>,
       <<from_f64(0), from_f64(-40), from_f64(130), from_f64(-80)>>,
       <<from_f64(0), from_f64(0), from_f64(-80), from_f64(200)>> >>

C6_Total ==
    IsRosen =>
        /\ pc # "panicked"
        /\ (pc = "loop" => end = Dim - 1)

\* C7: with a = 1, rosenbrock_derivative and rosenbrock_derivative_const on
\* an all-ones vector of any length return a vector of that length whose
\* entries are all 0.
C7_ZeroGradientAtOnes ==
    (/\ IsRosen
     /\ fn \in {"rosenbrock_derivative", "rosenbrock_derivative_const"}
     /\ pc \in {"returned", "panicked"}
     /\ args.a = from_f64(1)
     /\ AllOnes) =>
        /\ pc = "returned"
        /\ Len(ret) = Dim
        /\ \A k \in Idx : At(ret, k) = from_f64(0)

\* C9: the matrix returned by rosenbrock_hessian or rosenbrock_hessian_const
\* for a vector of length n has n rows of n entries and is symmetric.
C9_HessianSquareSymmetric ==
    (Returned("rosenbrock_hessian") \/ Returned("rosenbrock_hessian_const")) =>
        /\ Len(ret) = Dim
        /\ \A r \in Idx : Len(At(ret, r)) = Dim
        /\ \A r \in Idx : \A c \in Idx : At(At(ret, r), c) = At(At(ret, c), r)

C9_Witness ==
    /\ Returned("rosenbrock_hessian_const")
    /\ Dim = 3
    /\ At(At(ret, 1), 2) # from_f64(0)
    /\ At(At(ret, 2), 1) = At(At(ret, 1), 2)

\* C11: himmelblau returns (x1^2 + x2 - 11)^2 + (x1 + x2^2 - 7)^2; the
\* result is never negative, and it is 0 at (3, 2).
C11_HimmelblauValue ==
    Returned("himmelblau") =>
        LET x1 == args.point[1]
            x2 == args.point[2]
            u == sub(add(mul(x1, x1), x2), from_f64(11))
            v == sub(add(x1, mul(x2, x2)), from_f64(7))
        IN  /\ ret = add(mul(u, u), mul(v, v))
            /\ ret[1] >= 0
            /\ ret[2] > 0
            /\ (args.point = <<from_f64(3), from_f64(2)>> => ret = from_f64(0))

C11_Witness ==
    /\ Returned("himmelblau")
    /\ args.point = <<from_f64(3), from_f64(2)>>
    /\ ret = from_f64(0)

(***************************************************************************)
(* C12: the Hessian loop, window by window.  In a state of the loop,       *)
(* i is the number of windows processed: windows 0 .. i-1 are done and     *)
(* window i is next.                                                       *)
(***************************************************************************)
InLoop == pc = "loop" /\ fn \in {"rosenbrock_hessian", "rosenbrock_hessian_const"}

TwoB == mul(from_f64(2), args.b)
OffDiagonal(k) == mul(mul(from_f64(-4), args.b), X(k))

\* The matrix between two windows: the entry [i][i] that the last window
\* wrote is exactly 2 b; the diagonal entries before it hold what their own
\* window added (on top of the 2 b of the window before, if any); the
\* off-diagonal entries of the windows done hold -4 b x_k; everything in a
\* row or column beyond i, and everything off the three diagonals, is 0.
C12_LoopState ==
    InLoop =>
        LET H(r, c) == At(At(hessian, r), c)
        IN  /\ Len(hessian) = Dim
            /\ (Dim >= 1 => i <= Dim - 1 /\ end = Dim - 1)
            /\ (i >= 1 => H(i, i) = TwoB)
            /\ (i = 0 /\ Dim >= 1 => H(0, 0) = from_f64(0))
            /\ \A k \in 0..(i - 1) :
                  /\ H(k, k) = add(IF k = 0 THEN from_f64(0) ELSE TwoB,
                                   DiagonalTerm(k))
                  /\ H(k, k + 1) = OffDiagonal(k)
                  /\ H(k + 1, k) = OffDiagonal(k)
            /\ \A r \in Idx : \A c \in Idx :
                  (r > i \/ c > i \/ r - c > 1 \/ c - r > 1) =>
                      H(r, c) = from_f64(0)

\* One pass of the loop: window i is the one processed and i goes up by
\* one; entry [i][i] is added to; [i+1][i+1], [i][i+1] and [i+1][i] are
\* assigned 2 b and -4 b x_i; no other entry changes.  Leaving the loop
\* changes nothing.
C12_LoopStep ==
    /\ (InLoop /\ pc' = "loop" /\ <<i, hessian>>' # <<i, hessian>>) =>
          /\ i' = i + 1
          /\ i + 1 < Dim
          /\ hessian'[i + 1][i + 1] = add(hessian[i + 1][i + 1], DiagonalTerm(i))
          /\ hessian'[i + 2][i + 2] = TwoB
          /\ hessian'[i + 1][i + 2] = OffDiagonal(i)
          /\ hessian'[i + 2][i + 1] = OffDiagonal(i)
          /\ \A r \in 1..Dim : \A c \in 1..Dim :
                (r \notin {i + 1, i + 2} \/ c \notin {i + 1, i + 2}) =>
                    hessian'[r][c] = hessian[r][c]
    /\ (InLoop /\ pc' = "returned") =>
          /\ i = Dim - 1
          /\ ret' = hessian

\* C12: windows are processed in increasing i; after window i entry
\* [i+1][i+1] is exactly 2 b and only window i+1 changes it, by adding to
\* it; [i][i+1] and [i+1][i] are written by window i alone; no entry in a
\* row or column beyond i+1 has been changed from 0; the diagonal entries
\* [i][i], i < n-1, are the only ones accumulated into.
C12_WindowByWindow == [](C12_LoopState) /\ [][C12_LoopStep]_vars

\* Two windows done on a vector of length 3: entry [1][1] holds 2 b plus
\* what window 1 added, entry [2][2] holds exactly 2 b.
C12_Witness ==
    /\ InLoop
    /\ Dim = 3
    /\ i = 2
    /\ DiagonalTerm(1) # from_f64(0)
    /\ At(At(hessian, 1), 1) = add(TwoB, DiagonalTerm(1))
    /\ At(At(hessian, 2), 2) = TwoB
    /\ At(At(hessian, 0), 1) # from_f64(0)

====
